---------------------------- MODULE Spec2Model ----------------------------
(***************************************************************************)
(* Model of the ik-webgpu core: the FABRIK solver (ik/solver.rs), the      *)
(* chain and its builder (ik/chain.rs), joint constraints                  *)
(* (ik/constraint.rs, ik/joint.rs) and the collision model                 *)
(* (collision/obstacle.rs, collision/world.rs, collision/response.rs).     *)
(*                                                                         *)
(* Arithmetic.  The program computes on f32 vectors.  The model computes   *)
(* on a fixed-point grid: a length or coordinate x is the integer          *)
(* round(x * Scale), a unit direction has components round(c * UnitScale), *)
(* and every operation rounds its result to the nearest grid value, as an  *)
(* f32 operation rounds to the nearest float.  All intermediate values fit *)
(* 32-bit integers for coordinates within about 20 length units.           *)
(***************************************************************************)
EXTENDS Integers, Sequences, FiniteSets, TLC

(***************************************************************************)
(* Fixed-point arithmetic                                                  *)
(***************************************************************************)

\* Grid steps per length unit: 0.001 is one step.
Scale == 1000

\* Grid steps of a unit direction's component.
UnitScale == 40000

\* Largest value of the model's integers.
MaxInt == 2147483647

Abs(a) == IF a < 0 THEN -a ELSE a

Max2(a, b) == IF a >= b THEN a ELSE b

Min2(a, b) == IF a <= b THEN a ELSE b

\* a / b rounded to the nearest integer (b > 0), halves away from -infinity.
RDiv(a, b) ==
    LET q == a \div b
        r == a % b
    IN  IF 2 * r >= b THEN q + 1 ELSE q

RECURSIVE SqrtNewton(_, _)
\* Newton's iteration from x >= sqrt(n) down to the largest r with r * r <= n.
SqrtNewton(n, x) ==
    LET y == (x + n \div x) \div 2
    IN  IF y >= x THEN x ELSE SqrtNewton(n, y)

\* A power of two above sqrt(n), to start the iteration from.
SqrtStart(n) ==
    IF n < 4096 THEN 64
    ELSE IF n < 262144 THEN 512
    ELSE IF n < 16777216 THEN 4096
    ELSE IF n < 268435456 THEN 16384
    ELSE 46341

\* f32::sqrt: the square root of n rounded to the nearest integer.
Sqrt(n) ==
    IF n = 0 THEN 0
    ELSE LET r == SqrtNewton(n, SqrtStart(n))
         IN  IF n - r * r > r THEN r + 1 ELSE r

(***************************************************************************)
(* Vec3                                                                    *)
(***************************************************************************)

ZERO == <<0, 0, 0>>

\* Vec3::Y as a unit direction.
UnitY == <<0, UnitScale, 0>>

VAdd(a, b) == <<a[1] + b[1], a[2] + b[2], a[3] + b[3]>>

VSub(a, b) == <<a[1] - b[1], a[2] - b[2], a[3] - b[3]>>

Dot(a, b) == a[1] * b[1] + a[2] * b[2] + a[3] * b[3]

LengthSquared(v) == Dot(v, v)

\* Vec3::length of a vector of grid coordinates, in grid steps.
Length(v) == Sqrt(LengthSquared(v))

RECURSIVE Magnify(_, _)
\* The largest power of two m' >= m with d2 * m' * m' <= MaxInt: the
\* mantissa scaling of a short vector before its length is taken.
Magnify(d2, m) ==
    IF m < 16384 /\ d2 <= MaxInt \div (4 * m * m)
    THEN Magnify(d2, 2 * m)
    ELSE m

\* Vec3::normalize_or_zero: the unit direction of v (components scaled by
\* UnitScale), or ZERO when v has no length.
NormalizeOrZero(v) ==
    LET d2 == LengthSquared(v)
    IN  IF d2 = 0 THEN ZERO
        ELSE LET m == Magnify(d2, 1)
                 len == Sqrt(d2 * m * m)
             IN  <<RDiv(v[1] * m * UnitScale, len),
                   RDiv(v[2] * m * UnitScale, len),
                   RDiv(v[3] * m * UnitScale, len)>>

\* direction * length: a unit direction scaled to a vector of grid coordinates.
ScaleDir(u, s) ==
    <<RDiv(u[1] * s, UnitScale), RDiv(u[2] * s, UnitScale), RDiv(u[3] * s, UnitScale)>>


\* The literal 0.0001 of the degeneracy tests, as its reciprocal.
EPSILON_RECIP == 10000

\* len > 0.0001 for a length in grid steps.
LongerThanEpsilon(len) == len * EPSILON_RECIP > Scale

\* length_squared() < 0.0001 for the result of NormalizeOrZero.
UnitIsDegenerate(u) == LengthSquared(u) < (UnitScale * UnitScale) \div EPSILON_RECIP

\* length_squared() > 0.0001 for a displacement in grid coordinates.
MovedMoreThanEpsilon(d) == LengthSquared(d) > (Scale * Scale) \div EPSILON_RECIP

(***************************************************************************)
(* Chain and ChainBuilder (ik/chain.rs), Joint (ik/joint.rs)               *)
(***************************************************************************)

\* Joint.constraint = None.
NoConstraint == [kind |-> "none", max_angle |-> 0]

\* BallSocketConstraint::new: a cone of max_angle degrees.
BallSocketConstraint(max_angle_degrees) ==
    [kind |-> "ball_socket", max_angle |-> max_angle_degrees]

\* Joint::new / Joint::with_constraint.
Joint(position, constraint) == [position |-> position, constraint |-> constraint]

\* ChainBuilder::calculate_bone_lengths.
calculate_bone_lengths(joints) ==
    IF Len(joints) < 2 THEN <<>>
    ELSE [i \in 1..(Len(joints) - 1) |->
            Length(VSub(joints[i + 1].position, joints[i].position))]

\* ChainBuilder::build.
build(joints, tol, max_iter) ==
    [joints |-> joints,
     bone_lengths |-> calculate_bone_lengths(joints),
     tolerance |-> tol,
     max_iterations |-> max_iter]

RECURSIVE SumSeq(_, _)
SumSeq(s, i) == IF i = 0 THEN 0 ELSE s[i] + SumSeq(s, i - 1)

\* Chain::total_length.
total_length(c) == SumSeq(c.bone_lengths, Len(c.bone_lengths))

\* Chain::joint_count.
joint_count(c) == Len(c.joints)

\* Chain::end_effector (of a chain with at least one joint).
end_effector(c) == c.joints[Len(c.joints)].position

\* chain.joints[i].position = p
SetPosition(joints, i, p) == [joints EXCEPT ![i].position = p]

(***************************************************************************)
(* FabrikSolver (ik/solver.rs)                                             *)
(***************************************************************************)

\* BoneDirection without its fallback: no direction for coinciding joints.
BoneDirectionNoFallback(from, to) ==
    LET dir == VSub(to, from)
        len == Length(dir)
    IN  IF LongerThanEpsilon(len) THEN NormalizeOrZero(dir) ELSE ZERO

\* The stepping rule of every pass: the unit direction from `from` to `to`,
\* or Vec3::Y when they are closer than 0.0001.
BoneDirection(from, to) ==
    LET dir == VSub(to, from)
        len == Length(dir)
    IN  IF LongerThanEpsilon(len) THEN NormalizeOrZero(dir) ELSE UnitY

\* The joint placed at bone_length from `from`, towards `to`.
Reposition(from, to, bone_length) ==
    VAdd(from, ScaleDir(BoneDirection(from, to), bone_length))

RECURSIVE ForwardWalk(_, _, _)
\* The loop of forward_pass, for i = k down to 1 (joints[i] from joints[i+1]).
ForwardWalk(joints, bone_lengths, k) ==
    IF k = 0 THEN joints
    ELSE ForwardWalk(
            SetPosition(joints, k,
                Reposition(joints[k + 1].position, joints[k].position, bone_lengths[k])),
            bone_lengths, k - 1)

\* forward_pass that leaves the end effector where it is.
forward_pass_unpinned(c, target) ==
    [c EXCEPT !.joints = ForwardWalk(c.joints, c.bone_lengths, Len(c.joints) - 1)]

\* FabrikSolver::forward_pass: pin the end effector at the target, walk to the base.
forward_pass(c, target) ==
    LET n == Len(c.joints)
    IN  [c EXCEPT !.joints =
            ForwardWalk(SetPosition(c.joints, n, target), c.bone_lengths, n - 1)]

RECURSIVE BackwardWalk(_, _, _)
\* The loop of backward_pass and of the bone-length fix-ups, for i = k..n
\* (joints[i] from joints[i-1]).
BackwardWalk(joints, bone_lengths, k) ==
    IF k > Len(joints) THEN joints
    ELSE BackwardWalk(
            SetPosition(joints, k,
                Reposition(joints[k - 1].position, joints[k].position, bone_lengths[k - 1])),
            bone_lengths, k + 1)

\* backward_pass that walks from where the forward pass left joint 0.
backward_pass_unpinned(c, base) ==
    [c EXCEPT !.joints = BackwardWalk(c.joints, c.bone_lengths, 2)]

\* FabrikSolver::backward_pass: pin joint 0 at the base, walk to the end effector.
backward_pass(c, base) ==
    [c EXCEPT !.joints = BackwardWalk(SetPosition(c.joints, 1, base), c.bone_lengths, 2)]

RECURSIVE StretchWalk(_, _, _, _)
StretchWalk(joints, bone_lengths, direction, k) ==
    IF k > Len(joints) THEN joints
    ELSE StretchWalk(
            SetPosition(joints, k,
                VAdd(joints[k - 1].position, ScaleDir(direction, bone_lengths[k - 1]))),
            bone_lengths, direction, k + 1)

\* stretch_towards_target without pinning joint 0: stretched from where it is.
stretch_unpinned(c, base, target) ==
    LET direction == NormalizeOrZero(VSub(target, base))
    IN  IF UnitIsDegenerate(direction) THEN c
        ELSE [c EXCEPT !.joints = StretchWalk(c.joints, c.bone_lengths, direction, 2)]

\* FabrikSolver::stretch_towards_target.
stretch_towards_target(c, base, target) ==
    LET direction == NormalizeOrZero(VSub(target, base))
    IN  IF UnitIsDegenerate(direction) THEN c
        ELSE [c EXCEPT !.joints =
                StretchWalk(SetPosition(c.joints, 1, base), c.bone_lengths, direction, 2)]

\* SolveResult.
SolveResult(converged, iterations, final_distance) ==
    [converged |-> converged, iterations |-> iterations, final_distance |-> final_distance]

\* One entry of the record of steps a call has run.
Step(name) == [step |-> name, passes |-> 0, pushes |-> 0, pose |-> <<>>, settled |-> TRUE]

\* The positions of the joints of c.
Positions(c) == [i \in 1..Len(c.joints) |-> c.joints[i].position]

\* The tolerance test of an iteration, and the pose it measured.
CheckStep(c) == [Step("check") EXCEPT !.pose = Positions(c)]

\* Outcome with the bone lengths measured again on the pose left.
OutcomeRemeasured(c, res, steps) ==
    [chain |-> build(c.joints, c.tolerance, c.max_iterations), result |-> res, steps |-> steps]

\* What a solve call leaves: the chain, the returned SolveResult, the steps run.
Outcome(c, res, steps) == [chain |-> c, result |-> res, steps |-> steps]

\* The return after the for loop of solve_anchored, given the end effector's
\* distance to the target.
Exhausted(c, final_distance, steps) ==
    Outcome(c, SolveResult(final_distance <= c.tolerance, c.max_iterations, final_distance),
            steps)

RECURSIVE SolveLoop(_, _, _, _, _)
\* SolveCheck reporting the 0-based loop index of the converging iteration.
SolveCheckFromZero(moved, target, base, iteration, distance, ran) ==
    IF distance <= moved.tolerance
    THEN Outcome(moved, SolveResult(TRUE, iteration, distance), ran)
    ELSE SolveLoop(moved, target, base, iteration + 1, ran)

\* The tolerance test that ends an iteration of solve_anchored, given the
\* end effector's distance to the target.
SolveCheck(moved, target, base, iteration, distance, ran) ==
    IF distance <= moved.tolerance
    THEN Outcome(moved, SolveResult(TRUE, iteration + 1, distance), ran)
    ELSE SolveLoop(moved, target, base, iteration + 1, ran)

\* An iteration of solve_anchored after its two passes, given the chain they
\* left.
SolveIteration(moved, target, base, iteration, steps) ==
    SolveCheck(moved, target, base, iteration,
               Length(VSub(end_effector(moved), target)),
               steps \o <<Step("forward"), Step("backward"), CheckStep(moved)>>)

\* The for loop of solve_anchored from `iteration` on, and the code after it.
SolveLoop(c, target, base, iteration, steps) ==
    IF iteration >= c.max_iterations
    THEN Exhausted(c, Length(VSub(end_effector(c), target)), steps)
    ELSE SolveIteration(backward_pass(forward_pass(c, target), base),
                        target, base, iteration, steps)

\* solve_anchored returning early on an empty chain only: a single joint
\* goes on to the reachability test.
solve_anchored_single(c, target, base) ==
    IF Len(c.joints) < 1
    THEN Outcome(c, SolveResult(TRUE, 0, 0), <<>>)
    ELSE LET total == total_length(c)
             distance_to_target == Length(VSub(target, base))
         IN  IF distance_to_target > total
             THEN Outcome(stretch_towards_target(c, base, target),
                          SolveResult(FALSE, 1, distance_to_target - total),
                          <<Step("stretch")>>)
             ELSE SolveLoop(c, target, base, 0, <<>>)

\* solve_anchored reporting a stretched chain as converged when the target
\* is out of reach by no more than the tolerance.
solve_anchored_lenient(c, target, base) ==
    IF Len(c.joints) < 2
    THEN Outcome(c, SolveResult(TRUE, 0, 0), <<>>)
    ELSE LET total == total_length(c)
             distance_to_target == Length(VSub(target, base))
         IN  IF distance_to_target > total
             THEN Outcome(stretch_towards_target(c, base, target),
                          SolveResult(distance_to_target - total <= c.tolerance, 1,
                                      distance_to_target - total),
                          <<Step("stretch")>>)
             ELSE SolveLoop(c, target, base, 0, <<>>)

\* FabrikSolver::solve_anchored.
solve_anchored(c, target, base) ==
    IF Len(c.joints) < 2
    THEN Outcome(c, SolveResult(TRUE, 0, 0), <<>>)
    ELSE LET total == total_length(c)
             distance_to_target == Length(VSub(target, base))
         IN  IF distance_to_target > total
             THEN Outcome(stretch_towards_target(c, base, target),
                          SolveResult(FALSE, 1, distance_to_target - total),
                          <<Step("stretch")>>)
             ELSE SolveLoop(c, target, base, 0, <<>>)

\* FabrikSolver::solve.
solve(c, target) ==
    IF Len(c.joints) = 0
    THEN Outcome(c, SolveResult(TRUE, 0, 0), <<>>)
    ELSE solve_anchored(c, target, c.joints[1].position)

(***************************************************************************)
(* Obstacles (collision/obstacle.rs)                                       *)
(***************************************************************************)

\* SphereObstacle::new.
SphereObstacle(center, radius) == [shape |-> "sphere", center |-> center, radius |-> radius]

\* AabbObstacle::new.
AabbObstacle(min, max) == [shape |-> "aabb", min |-> min, max |-> max]

\* SphereObstacle::signed_distance.
SphereSignedDistance(o, point) == Length(VSub(point, o.center)) - o.radius

\* SphereObstacle::push_out.
SpherePushOut(o, point, margin) ==
    LET dir == NormalizeOrZero(VSub(point, o.center))
    IN  IF UnitIsDegenerate(dir)
        THEN VAdd(o.center, ScaleDir(UnitY, o.radius + margin))
        ELSE VAdd(o.center, ScaleDir(dir, o.radius + margin))

\* a * 0.5 on one coordinate.
Half(a) == RDiv(a, 2)

\* AabbObstacle::center.
AabbCenter(o) ==
    <<Half(o.min[1] + o.max[1]), Half(o.min[2] + o.max[2]), Half(o.min[3] + o.max[3])>>

\* AabbObstacle::half_extents.
AabbHalfExtents(o) ==
    <<Half(o.max[1] - o.min[1]), Half(o.max[2] - o.min[2]), Half(o.max[3] - o.min[3])>>

\* AabbObstacle::signed_distance.
AabbSignedDistance(o, point) ==
    LET p == VSub(point, AabbCenter(o))
        h == AabbHalfExtents(o)
        q == <<Abs(p[1]) - h[1], Abs(p[2]) - h[2], Abs(p[3]) - h[3]>>
        outside == <<Max2(q[1], 0), Max2(q[2], 0), Max2(q[3], 0)>>
    IN  Length(outside) + Min2(Max2(q[1], Max2(q[2], q[3])), 0)

\* Vec3::clamp on one coordinate.
Clamp(x, lo, hi) == Min2(Max2(x, lo), hi)

\* |a - b| < 0.0001 for two lengths in grid steps.
WithinEpsilon(a, b) == Abs(a - b) * EPSILON_RECIP < Scale

\* AabbObstacle::closest_surface_point.
AabbClosestSurfacePoint(o, point) ==
    LET clamped == <<Clamp(point[1], o.min[1], o.max[1]),
                     Clamp(point[2], o.min[2], o.max[2]),
                     Clamp(point[3], o.min[3], o.max[3])>>
    IN  IF clamped = point
        THEN LET p == VSub(point, AabbCenter(o))
                 h == AabbHalfExtents(o)
                 distances == <<h[1] - Abs(p[1]), h[2] - Abs(p[2]), h[3] - Abs(p[3])>>
                 min_dist == Min2(distances[1], Min2(distances[2], distances[3]))
             IN  IF WithinEpsilon(distances[1], min_dist)
                 THEN [point EXCEPT ![1] = IF p[1] > 0 THEN o.max[1] ELSE o.min[1]]
                 ELSE IF WithinEpsilon(distances[2], min_dist)
                 THEN [point EXCEPT ![2] = IF p[2] > 0 THEN o.max[2] ELSE o.min[2]]
                 ELSE [point EXCEPT ![3] = IF p[3] > 0 THEN o.max[3] ELSE o.min[3]]
        ELSE clamped

\* f32::signum of a coordinate difference (signum(0.0) is 1.0).
Signum(a) == IF a < 0 THEN -1 ELSE 1

\* d / max(h, 0.0001) as a ratio scaled by UnitScale.
ExtentRatio(d, h) ==
    IF h > 0 THEN RDiv(d * UnitScale, h)
    ELSE d * ((UnitScale * EPSILON_RECIP) \div Scale)

\* AabbObstacle::surface_normal, as a unit direction.
AabbSurfaceNormal(o, point) ==
    LET d == VSub(point, AabbCenter(o))
        h == AabbHalfExtents(o)
        p == <<ExtentRatio(d[1], h[1]), ExtentRatio(d[2], h[2]), ExtentRatio(d[3], h[3])>>
    IN  IF Abs(p[1]) > Abs(p[2]) /\ Abs(p[1]) > Abs(p[3])
        THEN <<UnitScale * Signum(p[1]), 0, 0>>
        ELSE IF Abs(p[2]) > Abs(p[3])
        THEN <<0, UnitScale * Signum(p[2]), 0>>
        ELSE <<0, 0, UnitScale * Signum(p[3])>>

\* AabbObstacle::push_out.
AabbPushOut(o, point, margin) ==
    LET surface_pt == AabbClosestSurfacePoint(o, point)
        normal == AabbSurfaceNormal(o, surface_pt)
    IN  VAdd(surface_pt, ScaleDir(normal, margin))

\* Obstacle::signed_distance, dispatched on the shape.
signed_distance(o, point) ==
    IF o.shape = "sphere" THEN SphereSignedDistance(o, point)
    ELSE AabbSignedDistance(o, point)

\* Obstacle::push_out, dispatched on the shape.
push_out(o, point, margin) ==
    IF o.shape = "sphere" THEN SpherePushOut(o, point, margin)
    ELSE AabbPushOut(o, point, margin)

\* Obstacle::closest_surface_point, dispatched on the shape (the sphere's is
\* its push_out without the margin: centre + dir * radius, up the y axis from
\* the centre itself).
closest_surface_point(o, point) ==
    IF o.shape = "sphere" THEN SpherePushOut(o, point, 0)
    ELSE AabbClosestSurfacePoint(o, point)

\* Obstacle::surface_normal, dispatched on the shape, as a unit direction.
surface_normal(o, point) ==
    IF o.shape = "sphere" THEN NormalizeOrZero(VSub(point, o.center))
    ELSE AabbSurfaceNormal(o, point)

(***************************************************************************)
(* ObstacleWorld (collision/world.rs)                                      *)
(***************************************************************************)

\* The pass limit of push_out_point.
PUSH_PASSES == 4

RECURSIVE PushPass(_, _, _, _, _)
\* One pass of push_out_point over obstacles k.. in insertion order.
PushPass(obstacles, result, margin, k, pushed) ==
    IF k > Len(obstacles) THEN [point |-> result, pushed |-> pushed]
    ELSE IF signed_distance(obstacles[k], result) < margin
         THEN PushPass(obstacles, push_out(obstacles[k], result, margin), margin, k + 1, TRUE)
         ELSE PushPass(obstacles, result, margin, k + 1, pushed)

\* What push_out_point returns, the passes it made, and whether it returned
\* from the break (a pass in which no obstacle pushed).
Pushed(point, passes, settled) == [point |-> point, passes |-> passes, settled |-> settled]

RECURSIVE PushLoop(_, _, _, _)
\* push_out_point returning after its first pass, whether or not an obstacle
\* pushed in it.
PushBreakAfterOne(obstacles, margin, pass, r) == Pushed(r.point, pass + 1, ~r.pushed)

\* The end of a pass of push_out_point, given what the pass left (r): break
\* when no obstacle pushed.
PushBreak(obstacles, margin, pass, r) ==
    IF ~r.pushed THEN Pushed(r.point, pass + 1, TRUE)
    ELSE PushLoop(obstacles, r.point, margin, pass + 1)

\* The passes of push_out_point from pass number `pass` (0-based) on.
PushLoop(obstacles, result, margin, pass) ==
    IF pass >= PUSH_PASSES THEN Pushed(result, pass, FALSE)
    ELSE PushBreak(obstacles, margin, pass, PushPass(obstacles, result, margin, 1, FALSE))

\* ObstacleWorld::push_out_point: the point returned and the passes made.
push_out_point(obstacles, point, margin) == PushLoop(obstacles, point, margin, 0)

\* The obstacle the farthest from the point instead of the nearest.
farthest_obstacle(obstacles, point) ==
    IF Len(obstacles) = 0 THEN 0
    ELSE CHOOSE i \in 1..Len(obstacles) :
            \A j \in 1..Len(obstacles) :
               /\ signed_distance(obstacles[i], point) >= signed_distance(obstacles[j], point)
               /\ j < i => signed_distance(obstacles[j], point) < signed_distance(obstacles[i], point)

\* ObstacleWorld::closest_obstacle: the index of the obstacle of least signed
\* distance, the first of them on a tie (Iterator::min_by keeps the first
\* minimum), 0 for None in an empty world.
closest_obstacle(obstacles, point) ==
    IF Len(obstacles) = 0 THEN 0
    ELSE CHOOSE i \in 1..Len(obstacles) :
            \A j \in 1..Len(obstacles) :
               /\ signed_distance(obstacles[i], point) <= signed_distance(obstacles[j], point)
               /\ j < i => signed_distance(obstacles[j], point) > signed_distance(obstacles[i], point)

(***************************************************************************)
(* CollisionResponse (collision/response.rs)                               *)
(***************************************************************************)

\* CollisionConfig.
CollisionConfig(margin, max_iter, preserve) ==
    [margin |-> margin, max_iterations |-> max_iter, preserve_bone_lengths |-> preserve]

\* fix_bone_lengths left out: the pushed joints stay where they were pushed.
fix_bone_lengths_skipped(c) == c

\* CollisionResponse::fix_bone_lengths.
fix_bone_lengths(c) ==
    [c EXCEPT !.joints = BackwardWalk(c.joints, c.bone_lengths, 2)]

RECURSIVE PushJoints(_, _, _, _, _, _)
\* PushJoint without the epsilon test: the joint moves to whatever
\* push_out_point returned, if that is another point.
PushJointAnyMove(joints, obstacles, margin, i, any_collision, pushes, r) ==
    IF r.point # joints[i].position
    THEN PushJoints(SetPosition(joints, i, r.point), obstacles, margin,
                    i + 1, TRUE, Max2(pushes, r.passes))
    ELSE PushJoints(joints, obstacles, margin, i + 1, any_collision,
                    Max2(pushes, r.passes))

\* The body of the joint loop for joint i, given what push_out_point returned
\* for it (r): the joint moves if the push displaced it by more than epsilon.
PushJoint(joints, obstacles, margin, i, any_collision, pushes, r) ==
    IF MovedMoreThanEpsilon(VSub(r.point, joints[i].position))
    THEN PushJoints(SetPosition(joints, i, r.point), obstacles, margin,
                    i + 1, TRUE, Max2(pushes, r.passes))
    ELSE PushJoints(joints, obstacles, margin, i + 1, any_collision,
                    Max2(pushes, r.passes))

\* The joint loop of one resolve_chain pass, for joints i.. (joint 0 is index 1
\* and is never pushed): the joints, whether any moved, the most passes a
\* push_out_point call made.
PushJoints(joints, obstacles, margin, i, any_collision, pushes) ==
    IF i > Len(joints)
    THEN [joints |-> joints, any_collision |-> any_collision, pushes |-> pushes]
    ELSE PushJoint(joints, obstacles, margin, i, any_collision, pushes,
                   push_out_point(obstacles, joints[i].position, margin))

\* What resolve_chain leaves: the chain, the passes it ran, the most passes of
\* a push_out_point call, whether it ended on a pass that moved no joint.
Resolved(c, passes, pushes, settled) ==
    [chain |-> c, passes |-> passes, pushes |-> pushes, settled |-> settled]

\* The fix-up run after every pass in which a joint moved, whatever
\* config.preserve_bone_lengths says.
PreservedUnasked(pushed, config, any_collision) ==
    IF any_collision THEN fix_bone_lengths(pushed) ELSE pushed

\* The bone-length fix-up of a resolve_chain pass.
Preserved(pushed, config, any_collision) ==
    IF config.preserve_bone_lengths /\ any_collision
    THEN fix_bone_lengths(pushed)
    ELSE pushed

RECURSIVE ResolveLoop(_, _, _, _, _)
\* The end of a pass that breaks whether or not a joint moved.
ResolveBreakAlways(fixed, obstacles, config, pass, any_collision, pushes) ==
    Resolved(fixed, pass + 1, pushes, TRUE)

\* The end of a resolve_chain pass, given the chain after the fix-up: break
\* when no joint moved.
ResolveBreak(fixed, obstacles, config, pass, any_collision, pushes) ==
    IF ~any_collision THEN Resolved(fixed, pass + 1, pushes, TRUE)
    ELSE ResolveLoop(fixed, obstacles, config, pass + 1, pushes)

\* A resolve_chain pass after its joint loop, given what the loop left (r).
ResolvePass(c, obstacles, config, pass, r) ==
    ResolveBreak(Preserved([c EXCEPT !.joints = r.joints], config, r.any_collision),
                 obstacles, config, pass, r.any_collision, r.pushes)

\* The for loop of resolve_chain from pass number `pass` (0-based) on.
ResolveLoop(c, obstacles, config, pass, pushes) ==
    IF pass >= config.max_iterations THEN Resolved(c, pass, pushes, FALSE)
    ELSE ResolvePass(c, obstacles, config, pass,
                     PushJoints(c.joints, obstacles, config.margin, 2, FALSE, pushes))

\* resolve_chain with the pass loop over 0..=config.max_iterations.
resolve_chain_inclusive(c, obstacles, config) ==
    IF Len(obstacles) = 0 THEN Resolved(c, 0, 0, TRUE)
    ELSE IF joint_count(c) < 2 THEN Resolved(c, 0, 0, TRUE)
    ELSE ResolveLoop(c, obstacles, [config EXCEPT !.max_iterations = @ + 1], 0, 0)

\* CollisionResponse::resolve_chain.
resolve_chain(c, obstacles, config) ==
    IF Len(obstacles) = 0 THEN Resolved(c, 0, 0, TRUE)
    ELSE IF joint_count(c) < 2 THEN Resolved(c, 0, 0, TRUE)
    ELSE ResolveLoop(c, obstacles, config, 0, 0)

\* CollisionHit, for the joint at pos that push_out_point moved to pushed
\* and whose nearest obstacle is the given one.
CollisionHit(pos, pushed, obstacle) ==
    [original |-> pos, pushed |-> pushed,
     surface_point |-> closest_surface_point(obstacle, pos),
     normal |-> surface_normal(obstacle, closest_surface_point(obstacle, pos))]

RECURSIVE HitsFrom(_, _, _, _)
\* The body of the joint loop of get_collision_hits for joint i, given what
\* push_out_point returned for it (pushed) and closest_obstacle found (idx).
JointHit(joints, obstacles, margin, i, pushed, idx) ==
    IF MovedMoreThanEpsilon(VSub(pushed, joints[i].position)) /\ idx # 0
    THEN <<CollisionHit(joints[i].position, pushed, obstacles[idx])>>
            \o HitsFrom(joints, obstacles, margin, i + 1)
    ELSE HitsFrom(joints, obstacles, margin, i + 1)

\* The joint loop of get_collision_hits, for joints i.. .
HitsFrom(joints, obstacles, margin, i) ==
    IF i > Len(joints) THEN <<>>
    ELSE JointHit(joints, obstacles, margin, i,
                  push_out_point(obstacles, joints[i].position, margin).point,
                  closest_obstacle(obstacles, joints[i].position))

\* CollisionResponse::get_collision_hits: joints().iter().skip(1).
get_collision_hits(c, obstacles, margin) == HitsFrom(c.joints, obstacles, margin, 2)

\* The entry a resolve_chain call leaves in the record of steps.
ResolveStep(r) ==
    [step |-> "resolve", passes |-> r.passes, pushes |-> r.pushes, pose |-> Positions(r.chain),
     settled |-> r.settled]

(***************************************************************************)
(* FabrikSolver, collision-aware (ik/solver.rs)                            *)
(***************************************************************************)

\* fix_bone_lengths_forward left out: the pose stays what resolve_chain left.
fix_bone_lengths_forward_skipped(c) == c

\* FabrikSolver::fix_bone_lengths_forward.
fix_bone_lengths_forward(c) ==
    [c EXCEPT !.joints = BackwardWalk(c.joints, c.bone_lengths, 2)]

RECURSIVE CollisionLoop(_, _, _, _, _, _, _)
\* The tolerance test that ends an iteration of
\* solve_anchored_with_collision, given the end effector's distance to the
\* target.
CollisionCheck(moved, target, base, obstacles, config, iteration, distance, ran) ==
    IF distance <= moved.tolerance
    THEN Outcome(moved, SolveResult(TRUE, iteration + 1, distance), ran)
    ELSE CollisionLoop(moved, target, base, obstacles, config, iteration + 1, ran)

\* An iteration after its collision response, joint 0 put back on the base
\* and the bone lengths re-walked, given the chain these left.
CollisionIteration(moved, target, base, obstacles, config, iteration, ran) ==
    CollisionCheck(moved, target, base, obstacles, config, iteration,
                   Length(VSub(end_effector(moved), target)),
                   ran \o <<CheckStep(moved)>>)

\* An iteration after its two passes, given what resolve_chain left (r).
CollisionResponded(r, target, base, obstacles, config, iteration, steps) ==
    CollisionIteration(
        fix_bone_lengths_forward(
            [r.chain EXCEPT !.joints = SetPosition(r.chain.joints, 1, base)]),
        target, base, obstacles, config, iteration,
        steps \o <<Step("forward"), Step("backward"), ResolveStep(r),
                   Step("repin"), Step("fix")>>)

\* The for loop of solve_anchored_with_collision from `iteration` on, and the
\* code after it.
CollisionLoop(c, target, base, obstacles, config, iteration, steps) ==
    IF iteration >= c.max_iterations
    THEN Exhausted(c, Length(VSub(end_effector(c), target)), steps)
    ELSE CollisionResponded(
            resolve_chain(backward_pass(forward_pass(c, target), base), obstacles, config),
            target, base, obstacles, config, iteration, steps)

\* The unreachable branch with a re-walk of the bone lengths after
\* resolve_chain.
StretchedResolvedRewalked(r, final_distance) ==
    Outcome(fix_bone_lengths_forward(r.chain), SolveResult(FALSE, 1, final_distance),
            <<Step("stretch"), ResolveStep(r)>>)

\* The return of the unreachable branch of solve_anchored_with_collision,
\* given what resolve_chain left of the stretched chain (r).
StretchedThenResolved(r, final_distance) ==
    Outcome(r.chain, SolveResult(FALSE, 1, final_distance),
            <<Step("stretch"), ResolveStep(r)>>)

\* FabrikSolver::solve_anchored_with_collision.
solve_anchored_with_collision(c, target, base, obstacles, config) ==
    IF Len(c.joints) < 2
    THEN Outcome(c, SolveResult(TRUE, 0, 0), <<>>)
    ELSE LET total == total_length(c)
             distance_to_target == Length(VSub(target, base))
         IN  IF distance_to_target > total
             THEN StretchedThenResolved(
                      resolve_chain(stretch_towards_target(c, base, target),
                                    obstacles, config),
                      distance_to_target - total)
             ELSE CollisionLoop(c, target, base, obstacles, config, 0, <<>>)

\* FabrikSolver::solve_with_collision.
solve_with_collision(c, target, obstacles, config) ==
    IF Len(c.joints) = 0
    THEN Outcome(c, SolveResult(TRUE, 0, 0), <<>>)
    ELSE solve_anchored_with_collision(c, target, c.joints[1].position, obstacles, config)

(***************************************************************************)
(* Constraints (ik/constraint.rs) and Joint::apply_constraint              *)
(***************************************************************************)

\* cos(max_angle) of a cone of `deg` degrees, scaled by UnitScale
\* (BallSocketConstraint::new converts the degrees with to_radians).
CosDeg(deg) ==
    CASE deg = 0 -> UnitScale
      [] deg = 30 -> 34641
      [] deg = 45 -> 28284
      [] deg = 60 -> 20000
      [] deg = 90 -> 0
      [] deg = 180 -> -UnitScale

\* sin(max_angle), scaled by UnitScale.
SinDeg(deg) ==
    CASE deg = 0 -> 0
      [] deg = 30 -> 20000
      [] deg = 45 -> 28284
      [] deg = 60 -> 34641
      [] deg = 90 -> UnitScale
      [] deg = 180 -> 0

\* The product of two values scaled by UnitScale.
UMul(a, b) == RDiv(a * b, UnitScale)

\* Vec3::cross of two unit directions.
Cross(a, b) ==
    <<RDiv(a[2] * b[3] - a[3] * b[2], UnitScale),
      RDiv(a[3] * b[1] - a[1] * b[3], UnitScale),
      RDiv(a[1] * b[2] - a[2] * b[1], UnitScale)>>

\* The cosine of Vec3::angle_between two unit directions, scaled by UnitScale.
CosBetween(a, b) == RDiv(Dot(a, b), UnitScale)

\* Quat::from_axis_angle(axis, angle) * v for unit axis and v:
\* v cos + (axis x v) sin + axis (axis . v)(1 - cos).
Rotate(axis, deg, v) ==
    LET c == CosDeg(deg)
        sn == SinDeg(deg)
        k == Cross(axis, v)
        along == UMul(CosBetween(axis, v), UnitScale - c)
    IN  <<UMul(v[1], c) + UMul(k[1], sn) + UMul(axis[1], along),
          UMul(v[2], c) + UMul(k[2], sn) + UMul(axis[2], along),
          UMul(v[3], c) + UMul(k[3], sn) + UMul(axis[3], along)>>

\* BallSocketConstraint::apply.
BallSocketApply(deg, direction, reference) ==
    LET dir == NormalizeOrZero(direction)
        ref_dir == NormalizeOrZero(reference)
    IN  IF UnitIsDegenerate(dir) \/ UnitIsDegenerate(ref_dir) THEN ref_dir
        ELSE IF CosBetween(dir, ref_dir) >= CosDeg(deg) THEN dir
        ELSE LET axis == Cross(ref_dir, dir)
             IN  IF UnitIsDegenerate(axis) THEN ref_dir
                 ELSE Rotate(NormalizeOrZero(axis), deg, ref_dir)

\* Joint::apply_constraint.
apply_constraint(joint, direction, reference) ==
    IF joint.constraint.kind = "none" THEN NormalizeOrZero(direction)
    ELSE BallSocketApply(joint.constraint.max_angle, direction, reference)

(***************************************************************************)
(* Second-order dynamics (dynamics/second_order.rs), for T = f32           *)
(*                                                                         *)
(* Values and velocities are integers in steps of 1/DynScale, the          *)
(* coefficients k1, k2, k3 integers in steps of 1/Micro, the tuning        *)
(* f, z, r integers in tenths, and dt a fraction num/den of a second.      *)
(***************************************************************************)

DynScale == 10000

Micro == 1000000

\* std::f32::consts::PI as the fraction 355/113.
PiNum == 355

PiDen == 113

\* A tuning (f, z, r), in tenths.
Tuning(f, z, r) == [f |-> f, z |-> z, r |-> r]

\* SpringPreset::params.
params(preset) ==
    CASE preset = "Snappy" -> Tuning(40, 5, 20)
      [] preset = "Smooth" -> Tuning(20, 10, 0)
      [] preset = "Bouncy" -> Tuning(30, 3, 10)
      [] preset = "Sluggish" -> Tuning(10, 15, 0)
      [] preset = "Anticipate" -> Tuning(30, 8, -5)

\* A time step of num/den seconds.
Dt(num, den) == [num |-> num, den |-> den]

\* v * k for a coefficient k in steps of 1/Micro; the product is taken in
\* two halves to stay within 32 bits.
ScaleK(v, k) == RDiv(v * (k \div 1000) + RDiv(v * (k % 1000), 1000), 1000)

\* v.scale(dt).
ScaleDt(v, dt) == RDiv(v * dt.num, dt.den)

\* compute_constants: w = 2 PI f (in thousandths); k1 = z / (PI f);
\* k2 = 1 / (w w); k3 = r z / (PI f), taken as r times the rounded k1.
AngularFrequency(f) == RDiv(2 * PiNum * f * 100, PiDen)

K1(f, z) == RDiv(z * PiDen * Micro, PiNum * f)

compute_constants(f, z, r) ==
    [k1 |-> K1(f, z),
     k2 |-> RDiv(1000 * Micro, RDiv(AngularFrequency(f) * AngularFrequency(f), 1000)),
     k3 |-> RDiv(r * K1(f, z), 10)]

\* The filter with the coefficients k.
Filter(initial, k) ==
    [y |-> initial, yd |-> 0, xp |-> initial, k1 |-> k.k1, k2 |-> k.k2, k3 |-> k.k3]

\* SecondOrderDynamics::new.
new(f, z, r, initial) == Filter(initial, compute_constants(f, z, r))

\* SecondOrderDynamics::from_preset.
from_preset(preset, initial) ==
    new(params(preset).f, params(preset).z, params(preset).r, initial)

\* The filter s with the coefficients k.
WithConstants(s, k) == [s EXCEPT !.k1 = k.k1, !.k2 = k.k2, !.k3 = k.k3]

\* set_parameters that also stops the filter.
set_parameters_stopping(s, f, z, r) ==
    [WithConstants(s, compute_constants(f, z, r)) EXCEPT !.yd = 0]

\* SecondOrderDynamics::set_parameters.
set_parameters(s, f, z, r) == WithConstants(s, compute_constants(f, z, r))

\* reset that leaves the velocity as it was.
reset_moving(s, value) == [s EXCEPT !.y = value, !.xp = value]

\* SecondOrderDynamics::reset.
reset(s, value) == [s EXCEPT !.y = value, !.yd = 0, !.xp = value]

\* SecondOrderDynamics::current and velocity.
current(s) == s.y

velocity(s) == s.yd

\* update: xd = x.sub(self.xp).scale(1.0 / dt).
InputVelocity(x, xp, dt) == RDiv((x - xp) * dt.den, dt.num)

\* update: k2_stable = k2.max((dt dt / 2 + dt k1 / 2).max(dt k1)).
K2Stable(k1, k2, dt) ==
    Max2(k2, Max2(RDiv(dt.num * dt.num * Micro, 2 * dt.den * dt.den)
                      + RDiv(k1 * dt.num, 2 * dt.den),
                  RDiv(k1 * dt.num, dt.den)))

\* The acceleration before its division, without the damping term k1 yd.
Undamped(x, xd, y, yd, k1, k3) == x + ScaleK(xd, k3) - y

\* update: x + k3 xd - y - k1 yd, the acceleration before its division.
Force(x, xd, y, yd, k1, k3) == x + ScaleK(xd, k3) - y - ScaleK(yd, k1)

\* update: accel.scale(dt) for accel = force.scale(1.0 / k2_stable); the two
\* scalings are one division, taken in two halves to stay within 32 bits.
DtMicro(dt) == RDiv(Micro * dt.num, dt.den)

AccelDt(force, k2_stable, gain) ==
    (force \div k2_stable) * gain + RDiv((force % k2_stable) * gain, k2_stable)

\* What update returns and leaves.
Updated(s, returned) == [filter |-> s, returned |-> returned]

\* update that takes the acceleration at the position from before the call
\* and integrates the position afterwards.
update_unadvanced(s, x, dt) ==
    IF dt.num <= 0 THEN Updated(s, s.y)
    ELSE Updated([s EXCEPT !.xp = x,
                           !.y = s.y + ScaleDt(s.yd, dt),
                           !.yd = s.yd + AccelDt(Force(x, InputVelocity(x, s.xp, dt), s.y, s.yd,
                                                       s.k1, s.k3),
                                                 K2Stable(s.k1, s.k2, dt), DtMicro(dt))],
                 s.y + ScaleDt(s.yd, dt))

\* update past its guard, given the input velocity xd and the advanced y.
Advance(s, x, dt, xd, y) ==
    Updated([s EXCEPT !.xp = x, !.y = y,
                      !.yd = s.yd + AccelDt(Force(x, xd, y, s.yd, s.k1, s.k3),
                                            K2Stable(s.k1, s.k2, dt), DtMicro(dt))],
            y)

\* update that records the input before it looks at dt.
update_recording(s, x, dt) ==
    IF dt.num <= 0 THEN Updated([s EXCEPT !.xp = x], s.y)
    ELSE Advance(s, x, dt, InputVelocity(x, s.xp, dt), s.y + ScaleDt(s.yd, dt))

\* SecondOrderDynamics::update.
update(s, x, dt) ==
    IF dt.num <= 0 THEN Updated(s, s.y)
    ELSE Advance(s, x, dt, InputVelocity(x, s.xp, dt), s.y + ScaleDt(s.yd, dt))

(***************************************************************************)
(* The state machine: one chain, one obstacle world, and the calls a       *)
(* simulation loop makes on them.                                          *)
(***************************************************************************)

VARIABLES
    chain,     \* the Chain: joints, bone_lengths, tolerance, max_iterations
    world,     \* ObstacleWorld.obstacles, in insertion order
    call,      \* the last call: its name and arguments
    result,    \* the SolveResult the last solve call returned
    steps,     \* the steps the last call ran, in order
    applied,   \* the last apply_constraint call: arguments and returned vector
    probed,    \* the last push_out_point call: arguments and returned point
    hits,      \* the Vec<CollisionHit> the last get_collision_hits call returned
    filter,    \* the SecondOrderDynamics: y, yd, xp, k1, k2, k3
    driven,    \* the filter's last tuning, its last start value and its last update call
    calls      \* the number of calls made

vars == <<chain, world, call, result, steps, applied, probed, hits, filter, driven, calls>>

\* The state of the dynamics.
dynamics == <<filter, driven>>

\* The state of the solver and the obstacle world.
kinematics == <<chain, world, result, steps, applied, probed, hits>>

\* Calls in one behaviour.
MaxCalls == 3

\* Obstacles in the world.
MaxObstacles == 2

\* A point given in thousandths of a length unit.
Point(x, y, z) == <<x, y, z>>

Free(x, y, z) == Joint(Point(x, y, z), NoConstraint)

\* The joints handed to the builder.
EmptyJoints == <<>>
SingleJoint == <<Free(0, 0, 0)>>
OneBone == <<Free(0, 0, 0), Free(0, 2000, 0)>>
\* The chain of the crate's example (lib.rs).
DocJoints ==
    <<Free(0, 0, 0), Joint(Point(0, 1000, 0), BallSocketConstraint(45)), Free(0, 2000, 0)>>
Straight == <<Free(0, 0, 0), Free(0, 2000, 0), Free(0, 4000, 0)>>
Uneven == <<Free(0, 0, 0), Free(0, 3000, 0), Free(0, 4000, 0)>>
Coincident == <<Free(0, 0, 0), Free(0, 0, 0), Free(0, 2000, 0)>>
Bent == <<Free(0, 0, 0), Free(1000, 1000, 0), Free(2000, 0, 0), Free(3000, 1000, 500)>>

\* ChainBuilder defaults: tolerance 0.001 is below the grid's rounding, the
\* tight tolerance of the model is 0.01.
TightTolerance == Scale \div 100
LooseTolerance == Scale

\* ChainBuilder::new: max_iterations.
DefaultIterations == 10

\* A smaller iteration budget given to the builder.
FewIterations == 3

\* The chains a behaviour may start from.
BuiltChains ==
    { build(EmptyJoints, TightTolerance, DefaultIterations),
      build(SingleJoint, TightTolerance, DefaultIterations),
      build(OneBone, LooseTolerance, FewIterations),
      build(DocJoints, TightTolerance, DefaultIterations),
      build(Straight, LooseTolerance, DefaultIterations),
      build(Uneven, LooseTolerance, FewIterations),
      build(Coincident, TightTolerance, FewIterations),
      build(Bent, TightTolerance, FewIterations),
      build(Bent, LooseTolerance, 0) }

\* Targets: in reach off the chain's line, on the line, at the base, out of
\* the plane, and out of reach on and off the line.
Targets ==
    { Point(1000, 1000, 0), Point(0, -2000, 0), Point(0, 0, 0),
      Point(1500, 2000, 500), Point(0, 9000, 0), Point(5000, 5000, 0) }

\* Targets of the anchored entry points.
AnchoredTargets == { Point(1000, 1000, 0), Point(0, 9000, 0) }

\* Targets of solve_with_collision.
CollisionTargets == { Point(1000, 1000, 0), Point(1500, 2000, 500), Point(0, 9000, 0) }

\* Explicit bases of the anchored entry points.
Bases == { Point(0, 0, 0), Point(1000, 0, 0) }

\* CollisionConfig::default and variations of each field.
DefaultConfig == CollisionConfig(50, 4, TRUE)

LooseConfig == CollisionConfig(100, 4, FALSE)

Configs == { DefaultConfig, LooseConfig, CollisionConfig(50, 1, TRUE) }

\* Configurations of solve_anchored_with_collision.
AnchoredConfigs == { DefaultConfig, LooseConfig }

\* Configurations of resolve_chain: also with_iterations(0).
ResolveConfigs == Configs \cup { CollisionConfig(50, 0, TRUE) }

\* The obstacles a scene may add.
Obstacles ==
    { SphereObstacle(Point(0, 1200, 0), 300),
      SphereObstacle(Point(300, 2000, 0), 500),
      AabbObstacle(Point(500, -500, -500), Point(1500, 500, 500)) }

\* The last call.
Call(op, target, base, config) ==
    [op |-> op, target |-> target, base |-> base, config |-> config]

NoResult == SolveResult(FALSE, 0, 0)

NotApplied == [joint |-> Free(0, 0, 0), direction |-> ZERO, reference |-> ZERO, out |-> ZERO]

\* A push_out_point call: its arguments and what it returned (r).
Probed(point, margin, r) ==
    [point |-> point, margin |-> margin, out |-> r.point, passes |-> r.passes,
     settled |-> r.settled]

NotProbed == Probed(ZERO, 0, Pushed(ZERO, 0, TRUE))

\* A filter of the given tuning, constructed at the value start, that no
\* update call has driven yet.
NotDriven(tuning, start) ==
    [tuning |-> tuning, start |-> start, x |-> 0, dt |-> Dt(0, 1), returned |-> 0]

\* Chain::builder()...build() and ObstacleWorld::new().
Init ==
    /\ chain \in BuiltChains
    /\ world = <<>>
    /\ call = Call("build", ZERO, ZERO, DefaultConfig)
    /\ result = NoResult
    /\ steps = <<>>
    /\ applied = NotApplied
    /\ probed = NotProbed
    /\ hits = <<>>
    /\ filter = from_preset("Smooth", 0)
    /\ driven = NotDriven(params("Smooth"), 0)
    /\ calls = 0

\* A solve call's effect on the state.
Solved(o, c) ==
    /\ chain' = o.chain
    /\ result' = o.result
    /\ steps' = o.steps
    /\ call' = c
    /\ calls' = calls + 1
    /\ UNCHANGED <<world, applied, probed, hits, dynamics>>

\* The base solve and solve_with_collision pass on (ZERO for an empty chain,
\* which never reads it).
CurrentBase == IF Len(chain.joints) = 0 THEN ZERO ELSE chain.joints[1].position

Solve(target) ==
    /\ calls < MaxCalls
    /\ Solved(solve(chain, target), Call("solve", target, CurrentBase, DefaultConfig))

SolveAnchored(target, base) ==
    /\ calls < MaxCalls
    /\ Solved(solve_anchored(chain, target, base),
              Call("solve_anchored", target, base, DefaultConfig))

SolveWithCollision(target, config) ==
    /\ calls < MaxCalls
    /\ Solved(solve_with_collision(chain, target, world, config),
              Call("solve_with_collision", target, CurrentBase, config))

SolveAnchoredWithCollision(target, base, config) ==
    /\ calls < MaxCalls
    /\ Solved(solve_anchored_with_collision(chain, target, base, world, config),
              Call("solve_anchored_with_collision", target, base, config))

\* A resolve_chain call's effect on the state, given what it left (r).
ResolvedChain(r) ==
    /\ chain' = r.chain
    /\ steps' = <<ResolveStep(r)>>

ResolveChain(config) ==
    /\ calls < MaxCalls
    /\ ResolvedChain(resolve_chain(chain, world, config))
    /\ call' = Call("resolve_chain", ZERO, CurrentBase, config)
    /\ calls' = calls + 1
    /\ UNCHANGED <<world, result, applied, probed, hits, dynamics>>

\* Points asked about: between the two spheres, inside the first sphere,
\* inside the box, and clear of every obstacle.
ProbePoints ==
    { Point(115, 1506, 0), Point(0, 1000, 0), Point(1000, 400, 0), Point(-2000, 0, 0) }

\* ObstacleWorld::push_out_point, called by itself.
PushOutPoint(point, margin) ==
    /\ calls < MaxCalls
    /\ probed' = Probed(point, margin, push_out_point(world, point, margin))
    /\ call' = Call("push_out_point", ZERO, ZERO, DefaultConfig)
    /\ calls' = calls + 1
    /\ UNCHANGED <<chain, world, result, steps, applied, hits, dynamics>>

\* CollisionResponse::get_collision_hits, called with CollisionConfig::new(margin).margin.
GetCollisionHits(margin) ==
    /\ calls < MaxCalls
    /\ hits' = get_collision_hits(chain, world, margin)
    /\ call' = Call("get_collision_hits", ZERO, CurrentBase, CollisionConfig(margin, 4, TRUE))
    /\ calls' = calls + 1
    /\ UNCHANGED <<chain, world, result, steps, applied, probed, dynamics>>

\* ObstacleWorld::add.
Add(obstacle) ==
    /\ calls < MaxCalls
    /\ Len(world) < MaxObstacles
    /\ world' = Append(world, obstacle)
    /\ call' = Call("add", ZERO, ZERO, DefaultConfig)
    /\ calls' = calls + 1
    /\ UNCHANGED <<chain, result, steps, applied, probed, hits, dynamics>>

\* ObstacleWorld::clear.
Clear ==
    /\ calls < MaxCalls
    /\ world' = <<>>
    /\ call' = Call("clear", ZERO, ZERO, DefaultConfig)
    /\ calls' = calls + 1
    /\ UNCHANGED <<chain, result, steps, applied, probed, hits, dynamics>>

Next ==
    \/ \E t \in Targets : Solve(t)
    \/ \E t \in AnchoredTargets, b \in Bases : SolveAnchored(t, b)
    \/ \E t \in CollisionTargets, cfg \in Configs : SolveWithCollision(t, cfg)
    \/ \E t \in AnchoredTargets, b \in Bases, cfg \in AnchoredConfigs :
          SolveAnchoredWithCollision(t, b, cfg)
    \/ \E cfg \in ResolveConfigs : ResolveChain(cfg)
    \/ \E p \in ProbePoints, cfg \in AnchoredConfigs : PushOutPoint(p, cfg.margin)
    \/ \E cfg \in AnchoredConfigs : GetCollisionHits(cfg.margin)
    \/ \E o \in Obstacles : Add(o)
    \/ Clear

Spec == Init /\ [][Next]_vars

\* The plain solver alone: sequences of solve and solve_anchored calls.
NextPlain ==
    \/ \E t \in Targets : Solve(t)
    \/ \E t \in AnchoredTargets, b \in Bases : SolveAnchored(t, b)

SpecPlain == Init /\ [][NextPlain]_vars

(***************************************************************************)
(* Joint::apply_constraint as a pure function of its arguments             *)
(***************************************************************************)

\* Candidate and reference directions: along the axes, oblique, opposite,
\* nearly parallel, and of zero length.
Directions ==
    { Point(0, 1000, 0), Point(1000, 0, 0), Point(0, -1000, 0), Point(1000, 1000, 0),
      Point(300, 2000, -500), Point(10, 4000, 0), Point(0, 0, 0) }

\* The joints apply_constraint is called on.
ConstrainedJoints ==
    { Free(0, 0, 0),
      Joint(ZERO, BallSocketConstraint(0)),
      Joint(ZERO, BallSocketConstraint(45)),
      Joint(ZERO, BallSocketConstraint(90)) }

ApplyConstraint(joint, direction, reference) ==
    /\ calls < MaxCalls
    /\ applied' = [joint |-> joint, direction |-> direction, reference |-> reference,
                   out |-> apply_constraint(joint, direction, reference)]
    /\ call' = Call("apply_constraint", ZERO, ZERO, DefaultConfig)
    /\ calls' = calls + 1
    /\ UNCHANGED <<chain, world, result, steps, probed, hits, dynamics>>

InitConstraint ==
    /\ chain = build(DocJoints, TightTolerance, DefaultIterations)
    /\ world = <<>>
    /\ call = Call("build", ZERO, ZERO, DefaultConfig)
    /\ result = NoResult
    /\ steps = <<>>
    /\ applied = NotApplied
    /\ probed = NotProbed
    /\ hits = <<>>
    /\ filter = from_preset("Smooth", 0)
    /\ driven = NotDriven(params("Smooth"), 0)
    /\ calls = 0

NextConstraint ==
    \E j \in ConstrainedJoints, d \in Directions, r \in Directions : ApplyConstraint(j, d, r)

SpecConstraint == InitConstraint /\ [][NextConstraint]_vars

(***************************************************************************)
(* The filter: update, set_parameters and reset calls in any order         *)
(***************************************************************************)

\* The tunings given to new and set_parameters.
Tunings ==
    { params(preset) : preset \in { "Snappy", "Smooth", "Bouncy", "Sluggish", "Anticipate" } }

\* Tunings stiff enough for a frame's time step to raise k2_stable above k2:
\* to dt k1 (f = 7, z = 1) and to dt dt / 2 + dt k1 / 2 (f = 7, z = 0.5).
StiffTunings == { Tuning(70, 10, 0), Tuning(70, 5, 0) }

\* The tunings a filter is constructed with.
InitialTunings == { params("Smooth"), params("Snappy") }

\* Input values: 0, 1, -0.5.
Inputs == { 0, DynScale, -(DynScale \div 2) }

\* Time steps: a frame at 60 and at 30 per second, none, and a negative one.
TimeSteps == { Dt(1, 60), Dt(1, 30), Dt(0, 1), Dt(-1, 60) }

\* An update call's effect on the state, given what it returned and left (u).
Driven(u, x, dt) ==
    /\ filter' = u.filter
    /\ driven' = [driven EXCEPT !.x = x, !.dt = dt, !.returned = u.returned]
    /\ call' = Call("update", ZERO, ZERO, DefaultConfig)
    /\ calls' = calls + 1
    /\ UNCHANGED kinematics

Update(x, dt) ==
    /\ calls < MaxCalls
    /\ Driven(update(filter, x, dt), x, dt)

SetParameters(tuning) ==
    /\ calls < MaxCalls
    /\ filter' = set_parameters(filter, tuning.f, tuning.z, tuning.r)
    /\ driven' = [driven EXCEPT !.tuning = tuning]
    /\ call' = Call("set_parameters", ZERO, ZERO, DefaultConfig)
    /\ calls' = calls + 1
    /\ UNCHANGED kinematics

Reset(value) ==
    /\ calls < MaxCalls
    /\ filter' = reset(filter, value)
    /\ driven' = [driven EXCEPT !.start = value]
    /\ call' = Call("reset", ZERO, ZERO, DefaultConfig)
    /\ calls' = calls + 1
    /\ UNCHANGED kinematics

\* SecondOrderDynamics::new beside a chain no call touches.
Constructed(tuning, initial) ==
    /\ chain = build(DocJoints, TightTolerance, DefaultIterations)
    /\ world = <<>>
    /\ call = Call("new", ZERO, ZERO, DefaultConfig)
    /\ result = NoResult
    /\ steps = <<>>
    /\ applied = NotApplied
    /\ probed = NotProbed
    /\ hits = <<>>
    /\ filter = new(tuning.f, tuning.z, tuning.r, initial)
    /\ driven = NotDriven(tuning, initial)
    /\ calls = 0

InitDynamics == \E tuning \in InitialTunings, initial \in Inputs : Constructed(tuning, initial)

NextDynamics ==
    \/ \E x \in Inputs, dt \in TimeSteps : Update(x, dt)
    \/ \E tuning \in Tunings \cup StiffTunings : SetParameters(tuning)
    \/ \E value \in Inputs : Reset(value)

SpecDynamics == InitDynamics /\ [][NextDynamics]_vars

(***************************************************************************)
(* The filter driven from rest by a constant input, one update per frame   *)
(***************************************************************************)

\* Frames in one behaviour.
MaxSteps == 240

\* The tunings driven: the presets; critical damping with a response of 1;
\* damping of 1.8; damping just below critical; and a natural
\* frequency too high for the slow frame rate.
SettleTunings ==
    Tunings \cup { Tuning(20, 10, 10), Tuning(20, 18, 0), Tuning(30, 9, 0), Tuning(70, 10, 0) }

\* The constant inputs: 1 and -0.5, for a filter constructed at 0.
StepInputs == { DynScale, -(DynScale \div 2) }

\* The fixed time steps: 60 and 30 frames per second, and 10 per second for
\* the tuning of the highest frequency.
FrameSteps(tuning) == IF tuning.f >= 70 THEN { Dt(1, 10) } ELSE { Dt(1, 60), Dt(1, 30) }

\* One frame: update with the input and time step of the frames before it.
Drive(x, dt) ==
    /\ calls < MaxSteps
    /\ calls > 0 => (x = driven.x /\ dt = driven.dt)
    /\ Driven(update(filter, x, dt), x, dt)

InitSettle == \E tuning \in SettleTunings : Constructed(tuning, 0)

NextSettle == \E x \in StepInputs, dt \in FrameSteps(driven.tuning) : Drive(x, dt)

\* The simulation loop calls update once in every frame.
SpecSettle == InitSettle /\ [][NextSettle]_vars /\ WF_vars(NextSettle)

(***************************************************************************)
(* The scene of examples/animated_chain.rs: a chain of six joints, and the *)
(* obstacles, target and collision margin of App::new                      *)
(***************************************************************************)

SceneJoints ==
    <<Free(0, 0, 0), Free(0, 800, 0), Free(0, 1600, 0),
      Free(0, 2400, 0), Free(0, 3200, 0), Free(0, 4000, 0)>>

\* .tolerance(0.001): one grid step.
SceneTolerance == Scale \div 1000

\* .max_iterations(20).
SceneIterations == 20

SceneChain == build(SceneJoints, SceneTolerance, SceneIterations)

\* initial_target.
SceneTarget == Point(2000, 2000, 0)

\* The targets a drag moves the target to.
SceneTargets == { SceneTarget, Point(1000, 3000, 0), Point(-1500, 1500, 1000), Point(0, 5000, 0) }

\* add_sphere(Vec3::new(1.5, 2.0, 0.0), 0.5).
SceneSphere == SphereObstacle(Point(1500, 2000, 0), 500)

\* The obstacles of the scene (add_box gives a centre and half extents).
SceneObstacles ==
    { SceneSphere,
      SphereObstacle(Point(-1000, 1500, 0), 400),
      AabbObstacle(Point(-800, 2700, -300), Point(800, 3300, 300)) }

\* CollisionConfig::new(0.1): the margin, and the defaults of the other fields.
SceneConfig == CollisionConfig(100, DefaultConfig.max_iterations, DefaultConfig.preserve_bone_lengths)

InitScene ==
    /\ chain = SceneChain
    /\ world = <<>>
    /\ call = Call("build", ZERO, ZERO, DefaultConfig)
    /\ result = NoResult
    /\ steps = <<>>
    /\ applied = NotApplied
    /\ probed = NotProbed
    /\ hits = <<>>
    /\ filter = from_preset("Smooth", 0)
    /\ driven = NotDriven(params("Smooth"), 0)
    /\ calls = 0

NextScene ==
    \/ \E t \in SceneTargets : Solve(t)
    \/ \E t \in SceneTargets : SolveWithCollision(t, SceneConfig)
    \/ \E o \in SceneObstacles : Add(o)
    \/ Clear

SpecScene == InitScene /\ [][NextScene]_vars

(***************************************************************************)
(* Obstacle::push_out as a pure function of an obstacle, a point and a     *)
(* margin                                                                  *)
(***************************************************************************)

\* The obstacles asked: a sphere, a cube, a box with three different extents,
\* and a box of no thickness along x (a wall in the plane x = 0).
PushObstacles ==
    { SphereObstacle(Point(0, 1200, 0), 300),
      AabbObstacle(Point(500, -500, -500), Point(1500, 500, 500)),
      AabbObstacle(Point(-200, 200, -100), Point(1500, 500, 500)),
      AabbObstacle(Point(0, 0, 0), Point(0, 2000, 2000)) }

\* The points asked about: the sphere's centre, points inside the boxes, on
\* their faces, and outside them next to faces, edges and corners.
PushPoints ==
    { Point(x, y, z) : x \in { 0, 10, 1000, 1490, 1510 },
                       y \in { 300, 490, 510, 1200 },
                       z \in { 0, 300, 510 } }

\* The margins asked for: none, CollisionConfig::default().margin and a wider one.
PushMargins == { 0, DefaultConfig.margin, LooseConfig.margin }

\* Obstacle::push_out, called on the only obstacle of the world.
PushOut(point, margin) ==
    /\ calls < MaxCalls
    /\ probed' = Probed(point, margin, Pushed(push_out(world[1], point, margin), 1, TRUE))
    /\ call' = Call("push_out", ZERO, ZERO, DefaultConfig)
    /\ calls' = calls + 1
    /\ UNCHANGED <<chain, world, result, steps, applied, hits, dynamics>>

\* A world of one obstacle, beside a chain no call touches.
InitPushOut ==
    /\ chain = build(DocJoints, TightTolerance, DefaultIterations)
    /\ world \in { <<o>> : o \in PushObstacles }
    /\ call = Call("add", ZERO, ZERO, DefaultConfig)
    /\ result = NoResult
    /\ steps = <<>>
    /\ applied = NotApplied
    /\ probed = NotProbed
    /\ hits = <<>>
    /\ filter = from_preset("Smooth", 0)
    /\ driven = NotDriven(params("Smooth"), 0)
    /\ calls = 0

NextPushOut == \E point \in PushPoints, margin \in PushMargins : PushOut(point, margin)

SpecPushOut == InitPushOut /\ [][NextPushOut]_vars

(***************************************************************************)
(* Properties                                                              *)
(***************************************************************************)

\* The resolution at which lengths are compared: 0.001, one grid step.
LengthEps == Scale \div 1000

\* The length of v is within eps of len.
HasLength(v, len, eps) ==
    LET d2 == LengthSquared(v)
        lo == Max2(len - eps, 0)
        hi == len + eps
    IN  lo * lo <= d2 /\ d2 <= hi * hi

\* Every consecutive joint pair is at its build-time bone length.
Rigid(c) ==
    \A i \in 1..Len(c.bone_lengths) :
        HasLength(VSub(c.joints[i + 1].position, c.joints[i].position),
                  c.bone_lengths[i], LengthEps)

PlainSolves == {"solve", "solve_anchored"}
CollisionSolves == {"solve_with_collision", "solve_anchored_with_collision"}
AllSolves == PlainSolves \cup CollisionSolves

\* The last call ran the named step.
Ran(name) == \E k \in 1..Len(steps) : steps[k].step = name

\* How many times the last call ran the named step.
Count(name) == Cardinality({k \in 1..Len(steps) : steps[k].step = name})

\* The target of the last call was farther from its base than the chain is long.
OutOfReach == Length(VSub(call.target, call.base)) > total_length(chain)

\* C1: after any sequence of solve / solve_anchored calls on a chain of at
\* least 2 joints, every consecutive joint pair is at its build-time bone
\* length (to the grid's resolution), also where joints coincide and the
\* fallback direction (0,1,0) is used.
C1_BoneLengthsKept == Len(chain.joints) >= 2 => Rigid(chain)

\* C1 witness: the straight chain solved towards a target on its own line,
\* behind the base.  The forward pass then puts joint 1 on joint 0, takes the
\* fallback direction for the bone between them, and the chain ends folded
\* back onto its base.
C1_Witness ==
    /\ call.op \in PlainSolves
    /\ call.target = Point(0, -2000, 0)
    /\ Ran("backward")
    /\ chain.bone_lengths = <<2000, 2000>>
    /\ chain.joints[2].position = VAdd(chain.joints[1].position, Point(0, 2000, 0))
    /\ chain.joints[3].position = chain.joints[1].position

CollisionCalls == CollisionSolves \cup {"resolve_chain"}

\* C2 as claimed: whatever the world and the CollisionConfig, the chain left
\* by solve_with_collision, solve_anchored_with_collision or resolve_chain has
\* every consecutive joint pair at its build-time bone length.
C2_Original ==
    (call.op \in CollisionCalls /\ Len(chain.joints) >= 2) => Rigid(chain)

\* C2 as amended: a collision-aware call leaves the bones at their build-time
\* lengths if preserve_bone_lengths is set and they were so before the call,
\* or if the call ran the bone-length re-walk of the solver's reachable path;
\* with preserve_bone_lengths unset, resolve_chain and the unreachable path
\* give no such guarantee.
C2_BoneLengthsPreserved ==
    [][ (/\ call'.op \in CollisionCalls
         /\ \/ call'.config.preserve_bone_lengths /\ Rigid(chain)
            \/ \E k \in 1..Len(steps') : steps'[k].step = "fix")
        => Rigid(chain') ]_vars

\* C2 witness: resolve_chain with preserve_bone_lengths set ran a second
\* pass, so its first pass pushed a joint and re-imposed the bone lengths.
C2_Witness ==
    /\ call.op = "resolve_chain"
    /\ call.config.preserve_bone_lengths
    /\ Len(chain.joints) >= 3
    /\ steps[1].passes >= 2
    /\ Rigid(chain)

\* The distance along the chain from joint 0 to joint i (1-based).
Cumulative(c, i) == SumSeq(c.bone_lengths, i - 1)

\* Two points differ by at most eps in every coordinate.
Near(a, b, eps) ==
    /\ Abs(a[1] - b[1]) <= eps
    /\ Abs(a[2] - b[2]) <= eps
    /\ Abs(a[3] - b[3]) <= eps

\* C3: when the target is farther from the base than the chain is long,
\* plain solve / solve_anchored runs no forward or backward pass, returns
\* converged = false, iterations = 1, final_distance = distance -
\* total_length, and leaves joint 0 at the base and joint i on the ray from
\* the base to the target at the summed length of the first i bones (to one
\* grid step per bone).
C3_UnreachableStretch ==
    (call.op \in PlainSolves /\ Len(chain.joints) >= 2 /\ OutOfReach) =>
        LET unit == NormalizeOrZero(VSub(call.target, call.base))
        IN  /\ ~Ran("forward") /\ ~Ran("backward")
            /\ result = SolveResult(FALSE, 1,
                   Length(VSub(call.target, call.base)) - total_length(chain))
            /\ chain.joints[1].position = call.base
            /\ \A i \in 2..Len(chain.joints) :
                   Near(chain.joints[i].position,
                        VAdd(call.base, ScaleDir(unit, Cumulative(chain, i))),
                        (i - 1) * LengthEps)

\* C3 witness: solve_anchored stretched a chain of three bones from an
\* explicit base, away from where joint 0 was, towards a target out of reach.
C3_Witness ==
    /\ call.op = "solve_anchored"
    /\ call.base = Point(1000, 0, 0)
    /\ Len(chain.joints) = 4
    /\ OutOfReach
    /\ chain.joints[4].position # call.target
    /\ Ran("stretch")

\* The target of the last call was within the chain's total length of its base.
InReach == ~OutOfReach

\* C4: for a chain of at least 2 joints and a target no farther from the
\* base than the chain is long, plain solve with tolerance 1.0 and the
\* builder's full iteration budget returns final_distance <= tolerance.
C4_Reachability ==
    (/\ call.op = "solve"
     /\ Len(chain.joints) >= 2
     /\ InReach
     /\ chain.tolerance = LooseTolerance
     /\ chain.max_iterations >= DefaultIterations)
    => result.final_distance <= chain.tolerance

\* The end effector's distance to a target.
Residual(c, target) == Length(VSub(end_effector(c), target))

\* What the passes do keep when tolerance is not reached: on a chain with
\* its bones at their build-time lengths and a target in reach, plain solve
\* never returns a final_distance greater than the end effector's distance
\* to the target before the call.
NeverFarther ==
    [][ (/\ call'.op = "solve"
         /\ Len(chain.joints) >= 2
         /\ Rigid(chain)
         /\ Length(VSub(call'.target, call'.base)) <= total_length(chain))
        => result'.final_distance
              <= Residual(chain, call'.target) + Len(chain.joints) * LengthEps ]_vars

\* Two obstacles share no point.
Separated(a, b) ==
    IF a.shape = "sphere" /\ b.shape = "sphere"
    THEN Length(VSub(a.center, b.center)) >= a.radius + b.radius
    ELSE IF a.shape = "sphere" THEN AabbSignedDistance(b, a.center) >= a.radius
    ELSE IF b.shape = "sphere" THEN AabbSignedDistance(a, b.center) >= b.radius
    ELSE \E i \in 1..3 : a.max[i] <= b.min[i] \/ b.max[i] <= a.min[i]

\* The obstacles of the world are pairwise non-overlapping.
NonOverlapping == \A k, l \in 1..Len(world) : k < l => Separated(world[k], world[l])

\* Joint 0 is outside every obstacle, by the margin of the last call or more.
BaseClear ==
    \A k \in 1..Len(world) :
        signed_distance(world[k], chain.joints[1].position) >= call.config.margin

\* The numerical epsilon of the non-penetration property: 0.01.
PenetrationEps == Scale \div 100

\* C5: after resolve_chain with margin m, default max_iterations and
\* preserve_bone_lengths = true, in a world of non-overlapping obstacles none
\* of which encloses the base, every joint is at signed distance m - epsilon
\* or more from every obstacle.
C5_NonPenetration ==
    (/\ call.op = "resolve_chain"
     /\ call.config = DefaultConfig
     /\ Len(chain.joints) >= 2
     /\ Len(world) >= 1
     /\ NonOverlapping
     /\ BaseClear)
    => \A i \in 1..Len(chain.joints), k \in 1..Len(world) :
          signed_distance(world[k], chain.joints[i].position)
              >= call.config.margin - PenetrationEps

\* C6: on a chain of 0 or 1 joints each of the four solve entry points
\* returns converged = true, iterations = 0, final_distance = 0 and leaves
\* the chain as it was: a single joint moves neither to the target nor to
\* the base given.
C6_DegenerateChain ==
    [][ (call'.op \in AllSolves /\ Len(chain.joints) < 2)
        => (result' = SolveResult(TRUE, 0, 0) /\ chain' = chain /\ steps' = <<>>) ]_vars

\* C6 witness: a collision-aware anchored solve on a single joint, in a world
\* with an obstacle, with a base and a target that are not the joint's
\* position, returned {true, 0, 0} and left the joint where it was built.
C6_Witness ==
    /\ call.op = "solve_anchored_with_collision"
    /\ Len(chain.joints) = 1
    /\ Len(world) >= 1
    /\ call.base # chain.joints[1].position
    /\ call.target # chain.joints[1].position
    /\ chain.joints = SingleJoint
    /\ result = SolveResult(TRUE, 0, 0)

\* C7: for every solve entry point on a chain of at least 2 joints, the
\* returned final_distance is the distance between the end effector at
\* return and the target (to one grid step per joint).
C7_FinalDistanceIsResidual ==
    (call.op \in AllSolves /\ Len(chain.joints) >= 2)
    => Abs(result.final_distance - Residual(chain, call.target))
          <= Len(chain.joints) * LengthEps

\* The entries of the named step in the record of the last call.
Entries(name) == {k \in 1..Len(steps) : steps[k].step = name}

\* C8: a plain solve runs at most chain.max_iterations forward/backward pass
\* pairs; a collision-aware solve runs at most chain.max_iterations
\* iterations (one collision response each, and one on the unreachable
\* path), every collision response at most config.max_iterations passes, and
\* every joint push at most 4 passes over the obstacles.
C8_Bounded ==
    (call.op \in AllSolves \cup {"resolve_chain"})
    => /\ Count("forward") <= chain.max_iterations
       /\ Count("backward") = Count("forward")
       /\ Count("check") = Count("forward")
       /\ Count("stretch") <= 1
       /\ Ran("stretch") => ~Ran("forward")
       /\ call.op \in PlainSolves => ~Ran("resolve")
       /\ call.op \in CollisionSolves
             => Count("resolve") = Count("forward") + Count("stretch")
       /\ \A k \in Entries("resolve") :
             /\ steps[k].passes <= call.config.max_iterations
             /\ steps[k].pushes <= PUSH_PASSES
       /\ call.op \in AllSolves
             => result.iterations <= Max2(chain.max_iterations, 1)

\* C8 witness: a collision-aware solve used every iteration of the chain's
\* budget, and in one of them the collision response used every pass of the
\* configuration's budget, with a joint push that went over the obstacles
\* more than once.
C8_Witness ==
    /\ call.op \in CollisionSolves
    /\ chain.max_iterations >= FewIterations
    /\ Count("forward") = chain.max_iterations
    /\ \E k \in Entries("resolve") :
          steps[k].passes = call.config.max_iterations /\ steps[k].pushes >= 2

\* The unit direction of the bone from joint i to joint i + 1.
BoneDir(c, i) == NormalizeOrZero(VSub(c.joints[i + 1].position, c.joints[i].position))

\* The slack allowed on a cosine scaled by UnitScale: 0.01.
CosEps == UnitScale \div 100

\* C9: after a solve, every bone leaving a joint that carries a
\* BallSocketConstraint(max_angle) deviates from its parent bone's direction
\* by at most max_angle.
C9_ConstraintsHonoured ==
    (call.op \in AllSolves /\ Len(chain.joints) >= 3)
    => \A i \in 2..(Len(chain.joints) - 1) :
          chain.joints[i].constraint.kind = "ball_socket"
          => CosBetween(BoneDir(chain, i), BoneDir(chain, i - 1))
                >= CosDeg(chain.joints[i].constraint.max_angle) - CosEps

\* The slack allowed on the length of a unit direction: 0.01.
UnitEps == UnitScale \div 100

\* C10: for every candidate and reference direction, zero-length, parallel
\* and anti-parallel ones included, apply_constraint returns a unit vector,
\* and with a BallSocketConstraint one within max_angle of the reference.
C10_UnitWithinCone ==
    call.op = "apply_constraint"
    => /\ HasLength(applied.out, UnitScale, UnitEps)
       /\ applied.joint.constraint.kind = "ball_socket"
             => CosBetween(applied.out, NormalizeOrZero(applied.reference))
                   >= CosDeg(applied.joint.constraint.max_angle) - CosEps

(***************************************************************************)
(* Properties of the filter                                                *)
(***************************************************************************)

\* The last call was update with a time step that is zero or negative.
NonPositiveUpdate == call.op = "update" /\ driven.dt.num <= 0

\* C11: update(x, dt) with dt <= 0 returns the current filtered value and
\* leaves the whole filter as it was: y, yd, the stored previous input xp
\* (x is not recorded) and k1, k2, k3.
C11_NonPositiveDtNoOp ==
    [][NonPositiveUpdate' => (filter' = filter /\ driven'.returned = current(filter))]_vars

\* A moving filter was given a new input with a negative time step.
C11_Witness ==
    /\ NonPositiveUpdate
    /\ driven.dt.num < 0
    /\ driven.x # filter.xp
    /\ velocity(filter) # 0
    /\ driven.returned = current(filter)

\* The coefficients compute_constants gives for a tuning.
ConstantsOf(tuning) == compute_constants(tuning.f, tuning.z, tuning.r)

\* The filter s has the coefficients k.
HasConstants(s, k) == s.k1 = k.k1 /\ s.k2 = k.k2 /\ s.k3 = k.k3

\* C12: set_parameters(f, z, r) replaces k1, k2, k3 by the constants of
\* (f, z, r) and leaves the filtered value, the velocity and the stored
\* previous input unchanged, wherever in a sequence of calls it is made.
C12_SetParametersKeepsMotion ==
    [][(call.op = "set_parameters")' =>
          /\ current(filter') = current(filter)
          /\ velocity(filter') = velocity(filter)
          /\ filter'.xp = filter.xp
          /\ HasConstants(filter', ConstantsOf(driven'.tuning))]_vars

\* A filter that has moved and is moving was given a tuning other than the
\* one it was constructed with.
C12_Witness ==
    /\ call.op = "set_parameters"
    /\ driven.tuning \notin InitialTunings
    /\ HasConstants(filter, ConstantsOf(driven.tuning))
    /\ current(filter) # 0
    /\ velocity(filter) # 0
    /\ filter.xp # current(filter)

\* The filter has been driven (from 0, where it was constructed).
Driving == call.op = "update" /\ driven.dt.num > 0

\* The output is past the input, seen from where it started.
Beyond ==
    /\ Driving
    /\ \/ driven.x > 0 /\ current(filter) > driven.x
       \/ driven.x < 0 /\ current(filter) < driven.x

\* The distance within which the output counts as settled on the input: 0.002.
SettleEps == DynScale \div 500

\* The speed below which the output counts as at rest: 0.01 per second.
RestEps == DynScale \div 100

Settled == Driving /\ Abs(current(filter) - driven.x) <= SettleEps

\* update uses k2 itself, not its stability bound.
Unclamped == K2Stable(filter.k1, filter.k2, driven.dt) = filter.k2

\* The output converges to the input.
Converges == <>[]Settled

OneLengthPerBone(c) ==
    Len(c.bone_lengths) = (IF joint_count(c) < 2 THEN 0 ELSE joint_count(c) - 1)

\* A call leaves the chain's shape as it found it.
ShapeKept ==
    /\ joint_count(chain') = joint_count(chain)
    /\ chain'.bone_lengths = chain.bone_lengths
    /\ chain'.tolerance = chain.tolerance
    /\ chain'.max_iterations = chain.max_iterations

\* C14: ChainBuilder::build gives bone_lengths the distances between the
\* consecutive positions handed to the builder, and through every sequence
\* of solve and collision-response calls the joint count, every entry of
\* bone_lengths, tolerance and max_iterations stay what they were, with
\* bone_lengths holding joint_count - 1 entries (none for 0 or 1 joints).
C14_ChainShapeKept ==
    /\ chain.bone_lengths = calculate_bone_lengths(chain.joints)
    /\ []OneLengthPerBone(chain)
    /\ [][ShapeKept]_vars

\* A collision-aware call after another call has left a chain of at least
\* three joints in a pose the builder was never given, off its bone lengths.
C14_Witness ==
    /\ call.op \in CollisionCalls
    /\ calls >= 2
    /\ Len(chain.joints) >= 3
    /\ OneLengthPerBone(chain)
    /\ chain.bone_lengths # calculate_bone_lengths(chain.joints)

\* The worlds holding the obstacles of w, added in every order.
Reorderings(w) ==
    { [i \in 1..Len(w) |-> w[order[i]]] : order \in Permutations(1..Len(w)) }

\* C15: for worlds holding the same obstacles added in different orders,
\* push_out_point returns the same point for every point and margin, and
\* resolve_chain leaves the same chain pose, also when obstacles overlap or
\* lie closer together than the margin.
C15_OrderIrrelevant ==
    [][/\ (call.op = "push_out_point")' =>
             \A w \in Reorderings(world) :
                push_out_point(w, probed'.point, probed'.margin).point = probed'.out
       /\ (call.op = "resolve_chain")' =>
             \A w \in Reorderings(world) :
                resolve_chain(chain, w, call'.config).chain = chain']_vars

\* The last call was the first made on the scene's chain as built, with the
\* scene's target.
FirstOnScene(op) == call.op = op /\ calls = 1 /\ call.target = SceneTarget

C17_SceneClear ==
    (/\ call.op = "solve_with_collision"
     /\ calls = 2
     /\ call.target = SceneTarget
     /\ call.config = SceneConfig
     /\ world = <<SceneSphere>>)
    => \A i \in 1..Len(chain.joints) :
          Length(VSub(chain.joints[i].position, SceneSphere.center))
              >= SceneSphere.radius + SceneConfig.margin - LengthEps

\* The end effector's distance to the target of the last call, in the pose
\* that entry k of the record of steps measured.
Measured(k) == Length(VSub(steps[k].pose[Len(steps[k].pose)], call.target))

\* The tolerance tests of the last call that found the end effector within
\* tolerance of the target.
Met == {k \in Entries("check") : Measured(k) <= chain.tolerance}

\* The number of the iteration that made entry k (1-based).
IterationOf(k) == Cardinality({j \in Entries("check") : j <= k})

\* C18: on the reachable path of plain and collision-aware solve (at least
\* 2 joints, target no farther from the base than the chain is long),
\* converged <=> final_distance <= tolerance; if an iteration ends with the
\* end effector within tolerance, iterations is the 1-based number of the
\* first such iteration, between 1 and max_iterations, and no iteration
\* follows it; otherwise iterations = max_iterations, also when that is 0
\* and no pass runs.
C18_ConvergenceReport ==
    (call.op \in AllSolves /\ Len(chain.joints) >= 2 /\ InReach) =>
        /\ result.converged <=> result.final_distance <= chain.tolerance
        /\ Met # {} =>
              /\ result.converged
              /\ \A k \in Met : IterationOf(k) = result.iterations
              /\ result.iterations = Count("check")
              /\ result.iterations \in 1..chain.max_iterations
              /\ steps[Len(steps)].step = "check"
              /\ result.final_distance = Measured(Len(steps))
        /\ Met = {} =>
              /\ result.iterations = chain.max_iterations
              /\ Count("check") = chain.max_iterations
              /\ chain.max_iterations = 0 => steps = <<>>

\* A collision-aware solve that pushed joints found the end effector within
\* tolerance at the end of its second or a later iteration.
C18_Witness ==
    /\ call.op \in CollisionSolves
    /\ InReach
    /\ result.converged
    /\ result.iterations >= 2
    /\ Met = {Len(steps)}
    /\ \E k \in Entries("resolve") : steps[k].pushes >= 1 /\ steps[k].passes >= 2

\* The steps of one iteration of the collision-aware solve, in order.
IterationOrder == <<"forward", "backward", "resolve", "repin", "fix", "check">>

\* Every consecutive pair of positions is at the chain's bone length.
PoseRigid(pose) ==
    \A i \in 1..Len(chain.bone_lengths) :
        HasLength(VSub(pose[i + 1], pose[i]), chain.bone_lengths[i], LengthEps)

\* C19: on the reachable path every iteration of the collision-aware solve
\* runs forward pass, backward pass, resolve_chain, re-pin of joint 0,
\* forward re-walk of the bone lengths, tolerance test, in this order; the
\* pose the tolerance test measures has joint 0 at the base and every bone
\* at its length.
C19_IterationOrder ==
    (call.op \in CollisionSolves /\ Len(chain.joints) >= 2 /\ InReach) =>
        /\ Len(steps) = Len(IterationOrder) * Count("check")
        /\ \A k \in 1..Len(steps) :
              steps[k].step = IterationOrder[((k - 1) % Len(IterationOrder)) + 1]
        /\ \A k \in Entries("check") :
              /\ steps[k].pose[1] = call.base
              /\ PoseRigid(steps[k].pose)

\* An iteration whose collision response left a pose off the bone lengths,
\* and whose tolerance test measured another pose.
C19_Witness ==
    /\ call.op \in CollisionSolves
    /\ InReach
    /\ \E k \in Entries("resolve") :
          /\ steps[k].pushes >= 1
          /\ ~PoseRigid(steps[k].pose)
          /\ steps[k + 3].step = "check"
          /\ steps[k + 3].pose # steps[k].pose
          /\ PoseRigid(steps[k + 3].pose)

\* C20: when the target is out of reach, the collision-aware solve
\* stretches the chain toward the target, calls resolve_chain once, runs no
\* pass, re-pin or re-walk, leaves the pose resolve_chain left, and returns
\* converged = false with iterations = 1.
C20_UnreachableResolvedOnce ==
    (call.op \in CollisionSolves /\ Len(chain.joints) >= 2 /\ OutOfReach) =>
        /\ Len(steps) = 2
        /\ steps[1].step = "stretch"
        /\ steps[2].step = "resolve"
        /\ Positions(chain) = steps[2].pose
        /\ ~result.converged
        /\ result.iterations = 1

\* The collision response moved joints of the stretched chain and left them
\* off the bone lengths.
C20_Witness ==
    /\ call.op \in CollisionSolves
    /\ OutOfReach
    /\ Len(chain.joints) >= 3
    /\ Ran("stretch")
    /\ steps[2].pushes >= 1
    /\ ~Rigid(chain)
    /\ result = SolveResult(FALSE, 1, Length(VSub(call.target, call.base)) - total_length(chain))

\* Some obstacle of the world is closer than margin to the point p.
WithinMargin(p, margin) ==
    \E k \in 1..Len(world) : signed_distance(world[k], p) < margin

\* C21: push_out_point makes between 1 and 4 passes over the obstacles and
\* returns after the first pass in which no obstacle pushed; a returned
\* point closer than margin to some obstacle occurs only when all 4 passes
\* pushed; a point at signed distance >= margin from every obstacle (or any
\* point in an empty world) is returned unchanged, after one pass.
C21_PushOutPasses ==
    call.op = "push_out_point" =>
        /\ probed.passes \in 1..PUSH_PASSES
        /\ probed.settled => ~WithinMargin(probed.out, probed.margin)
        /\ WithinMargin(probed.out, probed.margin) =>
              (~probed.settled /\ probed.passes = PUSH_PASSES)
        /\ ~WithinMargin(probed.point, probed.margin) =>
              (probed.out = probed.point /\ probed.passes = 1 /\ probed.settled)

\* All 4 passes pushed a point between two obstacles and left it closer
\* than margin to one of them.
C21_Witness ==
    /\ call.op = "push_out_point"
    /\ Len(world) = 2
    /\ probed.passes = PUSH_PASSES
    /\ ~probed.settled
    /\ probed.out # probed.point
    /\ WithinMargin(probed.out, probed.margin)

\* push_out_point would displace joint i (1-based) of c by a squared
\* distance greater than 1e-4.
Displaced(c, i, margin) ==
    MovedMoreThanEpsilon(
        VSub(push_out_point(world, c.joints[i].position, margin).point,
             c.joints[i].position))

\* No joint but joint 0 would be displaced.
NoneDisplaced(c, margin) == \A i \in 2..Len(c.joints) : ~Displaced(c, i, margin)

\* C22: resolve_chain never changes joint 0's position, and leaves every
\* joint unchanged when the world is empty, the chain has fewer than 2
\* joints, config.max_iterations = 0, or push_out_point would displace no
\* joint but joint 0 by a squared distance greater than 1e-4.
C22_ResolveFrame ==
    [][(call.op = "resolve_chain")' =>
          /\ Len(chain.joints) >= 1 => chain'.joints[1] = chain.joints[1]
          /\ (\/ Len(world) = 0
              \/ Len(chain.joints) < 2
              \/ call'.config.max_iterations = 0
              \/ NoneDisplaced(chain, call'.config.margin)) => chain' = chain]_vars

\* resolve_chain left alone a chain with a joint that push_out_point moves
\* by less than the epsilon.
C22_Witness ==
    /\ call.op = "resolve_chain"
    /\ call.config.max_iterations >= 1
    /\ Len(world) >= 1
    /\ Len(chain.joints) >= 2
    /\ steps[1].passes = 1
    /\ NoneDisplaced(chain, call.config.margin)
    /\ \E i \in 2..Len(chain.joints) :
          push_out_point(world, chain.joints[i].position, call.config.margin).point
              # chain.joints[i].position

\* C23: resolve_chain runs at most config.max_iterations passes and ends
\* after the first pass in which no joint moved, so the chain it leaves from
\* there has no joint push_out_point would displace; a pass in which no
\* joint moved re-imposes no bone length; with preserve_bone_lengths set, a
\* call that moved a joint leaves the bones re-walked from the base; with it
\* unset nothing is re-walked, so only joints that were displaced move.
C23_ResolvePasses ==
    [][(call.op = "resolve_chain" /\ Len(world) >= 1 /\ Len(chain.joints) >= 2)' =>
          /\ steps'[1].passes <= call'.config.max_iterations
          /\ steps'[1].settled => NoneDisplaced(chain', call'.config.margin)
          /\ ~steps'[1].settled => steps'[1].passes = call'.config.max_iterations
          /\ (steps'[1].settled /\ steps'[1].passes = 1) => chain' = chain
          /\ (call'.config.preserve_bone_lengths /\ chain' # chain) => Rigid(chain')
          /\ ~call'.config.preserve_bone_lengths =>
                \A i \in 2..Len(chain.joints) :
                   chain'.joints[i] # chain.joints[i] => Displaced(chain, i, call'.config.margin)]_vars

\* Passes that moved joints and re-walked the bones, then a pass that moved
\* none, before config.max_iterations ran out.
C23_Witness ==
    /\ call.op = "resolve_chain"
    /\ call.config.preserve_bone_lengths
    /\ Len(chain.joints) >= 3
    /\ steps[1].settled
    /\ steps[1].passes >= 3
    /\ steps[1].passes < call.config.max_iterations
    /\ Rigid(chain)

\* The place of joint i among the joints of the chain that push_out_point
\* displaces.
HitIndex(c, i, margin) ==
    Cardinality({ j \in 2..i : Displaced(c, j, margin) })

\* Obstacle k of the world is one of least signed distance to the point.
Nearest(k, point) ==
    \A j \in 1..Len(world) :
       signed_distance(world[k], point) <= signed_distance(world[j], point)

\* C24: get_collision_hits changes neither chain nor world and returns, in
\* joint order, one hit for every non-base joint that push_out_point
\* displaces by more than the epsilon and no other: the hit's original is
\* the joint's position, pushed is what push_out_point returned, and
\* surface_point and normal are those of an obstacle of least signed
\* distance to the original position.
C24_CollisionHits ==
    [][(call.op = "get_collision_hits")' =>
          /\ chain' = chain
          /\ world' = world
          /\ Len(hits') = HitIndex(chain, Len(chain.joints), call'.config.margin)
          /\ \A i \in 2..Len(chain.joints) :
                Displaced(chain, i, call'.config.margin) =>
                   /\ hits'[HitIndex(chain, i, call'.config.margin)].original
                         = chain.joints[i].position
                   /\ hits'[HitIndex(chain, i, call'.config.margin)].pushed
                         = push_out_point(world, chain.joints[i].position,
                                          call'.config.margin).point
                   /\ \E k \in 1..Len(world) :
                         /\ Nearest(k, chain.joints[i].position)
                         /\ hits'[HitIndex(chain, i, call'.config.margin)].surface_point
                               = closest_surface_point(world[k], chain.joints[i].position)
                         /\ hits'[HitIndex(chain, i, call'.config.margin)].normal
                               = surface_normal(world[k],
                                    closest_surface_point(world[k], chain.joints[i].position))]_vars

\* Hits returned for a chain of which one non-base joint is displaced and
\* another is not, in a world of two obstacles at different distances from
\* the displaced joint, the nearer one added second.
C24_Witness ==
    /\ call.op = "get_collision_hits"
    /\ Len(world) = 2
    /\ Len(hits) >= 1
    /\ Len(hits) < Len(chain.joints) - 1
    /\ signed_distance(world[2], hits[1].original) < signed_distance(world[1], hits[1].original)
    /\ hits[1].pushed # hits[1].original

\* C29: when resolve_chain returned on a pass that displaced no joint,
\* get_collision_hits called next on the chain it left, with the same world
\* and the same margin, returns an empty list.
C29_SettledMeansNoHits ==
    [][(/\ call.op = "resolve_chain"
        /\ steps[1].passes >= 1
        /\ steps[1].settled
        /\ call'.op = "get_collision_hits"
        /\ call'.config.margin = call.config.margin) => hits' = <<>>]_vars

\* No hit at the margin of a resolve_chain call that pushed joints, re-walked
\* the bones and then found nothing to push; the chain it left still has hits
\* at the wider margin, so the call was made with the narrower one.
C29_Witness ==
    /\ call.op = "get_collision_hits"
    /\ Len(steps) = 1
    /\ steps[1].step = "resolve"
    /\ steps[1].settled
    /\ steps[1].passes >= 2
    /\ Positions(chain) = steps[1].pose
    /\ call.config.margin = DefaultConfig.margin
    /\ hits = <<>>
    /\ get_collision_hits(chain, world, LooseConfig.margin) # <<>>

\* The three values k2_stable is the greatest of, for the filter s and the
\* time step dt: k2, dt dt / 2 + dt k1 / 2 and dt k1.
StableCandidates(s, dt) ==
    { s.k2,
      RDiv(dt.num * dt.num * Micro, 2 * dt.den * dt.den) + RDiv(s.k1 * dt.num, 2 * dt.den),
      RDiv(s.k1 * dt.num, dt.den) }

StableK2(s, dt) ==
    CHOOSE m \in StableCandidates(s, dt) : \A n \in StableCandidates(s, dt) : m >= n

\* C25: for dt > 0, update(x, dt) returns y + yd dt with the velocity from
\* before the call, leaves that as the filtered value, stores x as the
\* previous input, and sets the velocity to
\* yd + dt (x + k3 (x - xp) / dt - y_new - k1 yd) / k2_stable with the old
\* yd and xp and k2_stable = max(k2, dt dt / 2 + dt k1 / 2, dt k1).
C25_UpdateStep ==
    [][Driving' =>
          /\ driven'.returned = current(filter) + ScaleDt(velocity(filter), driven'.dt)
          /\ current(filter') = driven'.returned
          /\ filter'.xp = driven'.x
          /\ velocity(filter') =
                velocity(filter)
                + AccelDt(driven'.x
                             + ScaleK(InputVelocity(driven'.x, filter.xp, driven'.dt), filter.k3)
                             - current(filter')
                             - ScaleK(velocity(filter), filter.k1),
                          StableK2(filter, driven'.dt), DtMicro(driven'.dt))
          /\ HasConstants(filter', filter)]_vars

\* An update of a filter that was moving (it returned a value no reset and no
\* construction can have left) with k2_stable = dt dt / 2 + dt k1 / 2, above
\* both k2 and dt k1.
C25_Witness ==
    /\ Driving
    /\ velocity(filter) # 0
    /\ driven.returned \notin Inputs
    /\ driven.tuning = Tuning(70, 5, 0)
    /\ StableK2(filter, driven.dt) > filter.k2
    /\ StableK2(filter, driven.dt) > RDiv(filter.k1 * driven.dt.num, driven.dt.den)

\* The filter was just constructed or reset, at driven.start.
Started == call.op \in { "new", "reset" }

\* The filter rests on its input: the filtered value is the stored previous
\* input, and the velocity is zero.
AtRest == current(filter) = filter.xp /\ velocity(filter) = 0

\* C30: right after new(f, z, r, v) or reset(v) the filtered value is v and
\* the velocity 0; the first update with dt > 0 then returns v whatever the
\* input and the response r; and a filter resting on v that is updated with
\* the input v stays at v with zero velocity, update after update.
C30_StartsAtRest ==
    /\ [](Started => (current(filter) = driven.start /\ AtRest))
    /\ [][(Started /\ Driving') => driven'.returned = driven.start]_vars
    /\ [][(AtRest /\ Driving' /\ driven'.x = filter.xp) =>
             (AtRest' /\ current(filter') = current(filter)
                 /\ driven'.returned = current(filter))]_vars

\* A filter with a response r > 0 was started at a value other than 0, and
\* its first update, made with another input, returned the start value and
\* set the filter moving.
C30_Witness ==
    /\ Driving
    /\ driven.tuning.r > 0
    /\ driven.start # 0
    /\ driven.x # driven.start
    /\ driven.returned = driven.start
    /\ current(filter) = driven.start
    /\ velocity(filter) # 0
    /\ calls = MaxCalls

\* C28 as stated: for every solve call on a chain of at least 2 joints,
\* converged is true if and only if the end effector is within tolerance of
\* the target at return, also for a target out of reach by no more than
\* tolerance.
C28_Original ==
    (call.op \in AllSolves /\ Len(chain.joints) >= 2)
    => (result.converged <=> Residual(chain, call.target) <= chain.tolerance)

\* C28, amended: for every solve call on a chain of at least 2 joints,
\* converged is true if and only if the target is no farther from the base
\* than the chain is long and the end effector is within tolerance of the
\* target at return; a target out of reach is reported converged = false
\* also when the stretched chain ends within tolerance of it.
C28_ConvergedInReach ==
    (call.op \in AllSolves /\ Len(chain.joints) >= 2)
    => (result.converged <=>
           (InReach /\ Residual(chain, call.target) <= chain.tolerance))

\* A chain stretched towards a target out of its reach by less than the
\* tolerance: the end effector ends within tolerance, converged is false.
C28_Witness ==
    /\ call.op \in AllSolves
    /\ Len(chain.joints) >= 2
    /\ OutOfReach
    /\ Ran("stretch")
    /\ Residual(chain, call.target) <= chain.tolerance
    /\ ~result.converged

\* C27: on a chain of at least 2 joints with max_iterations >= 1, after
\* solve_anchored or solve_anchored_with_collision joint 0 is at the base
\* the call was given, for a target in reach or out of reach; after solve or
\* solve_with_collision joint 0 is where it was before the call.
C27_BasePinned ==
    [][(call'.op \in AllSolves /\ Len(chain.joints) >= 2 /\ chain.max_iterations >= 1) =>
          /\ call'.op \in { "solve_anchored", "solve_anchored_with_collision" }
                => chain'.joints[1].position = call'.base
          /\ call'.op \in { "solve", "solve_with_collision" }
                => chain'.joints[1].position = chain.joints[1].position]_vars

\* An anchored collision-aware solve given a base away from where the chain
\* was built, whose collision response pushed joints: joint 0 is at the base.
C27_Witness ==
    /\ call.op = "solve_anchored_with_collision"
    /\ Len(chain.joints) >= 2
    /\ chain.max_iterations >= 1
    /\ call.base # ZERO
    /\ chain.joints[1].position = call.base
    /\ \E k \in Entries("resolve") : steps[k].pushes >= 1

\* C26: for a sphere or an axis-aligned box and any margin >= 0,
\* push_out(point, margin) returns a point whose signed distance to the
\* obstacle is margin or more (to the numerical epsilon), for every point:
\* the sphere's centre, points inside a box, and points outside a box next
\* to an edge or a corner included.
C26_PushedOutByMargin ==
    call.op = "push_out" =>
        signed_distance(world[1], probed.out) >= probed.margin - PenetrationEps

=============================================================================
